---- MODULE Spec2Model ----
(***************************************************************************)
(* Verification model of adala/agents/base.py: the Agent's construction    *)
(* check (verify_input_parameters), runtime lookups, run, skill selector   *)
(* (select_skill_to_train), prompt refiner (pe_optimization) and learning  *)
(* loop (learn).                                                           *)
(*                                                                         *)
(* Floats are modelled in tenths (0.9 is 9).  Python strings are TLA+      *)
(* strings; a formatted text is the tuple of the pieces it is made of.     *)
(***************************************************************************)
EXTENDS Integers, Sequences, FiniteSets, TLC

\* ------------------------------------------------------------------------
\* Bounds of the model
\* ------------------------------------------------------------------------
MaxIter == 2
MaxRows == 2

\* ------------------------------------------------------------------------
\* Values
\* ------------------------------------------------------------------------
\* float('nan') as an accuracy: every ordered comparison with it is False.
NaN == -1
\* Python None as the third component of the selector's result.
NoScore == -2
\* Python None / NaN as a cell of the feedback table.
NoneFb == "<None>"
NaNFb == "<NaN>"

\* default of learn(accuracy_threshold=0.9), in tenths
DefaultThreshold == 9
Thresholds == {5, DefaultThreshold}
\* accuracies in tenths, below / at / above the thresholds, and NaN
AccValues == {3, 5, 9, 10, NaN}
LearnAccValues == {5, 10}

\* what a teacher runtime's execute() can return
TeacherReplies == {"", "reply_a"}
\* cells of a feedback column
FbValues == {NoneFb, NaNFb, "", "wrong"}

\* ------------------------------------------------------------------------
\* The skill set (SkillSet, Skill: collaborators of the Agent)
\* ------------------------------------------------------------------------
SkillNames == {"s1", "s2"}
\* get_skill_outputs(): ordered mapping output name -> owning skill name
SkillOutputs == << <<"out_a", "s1">>, <<"out_b", "s2">>, <<"out_c", "s2">> >>
Outputs == {SkillOutputs[i][1] : i \in 1..Len(SkillOutputs)}

InitialSkills ==
    [s \in SkillNames |->
        IF s = "s1"
        THEN [name |-> "s1", instructions |-> "instr_s1",
              input_template |-> "in_s1", output_template |-> "out_s1"]
        ELSE [name |-> "s2", instructions |-> "instr_s2",
              input_template |-> "in_s2", output_template |-> "out_s2"]]

\* the row fields a template's placeholders name
TemplateFields(t) ==
    CASE t = "in_s1" -> {"text"}
      [] t = "in_s2" -> {"text", "out_a"}
      [] t = "out_s1" -> {"out_a"}
      [] t = "out_s2" -> {"out_b", "out_c"}
      [] OTHER -> {}

\* ------------------------------------------------------------------------
\* State
\* ------------------------------------------------------------------------
VARIABLES
    pc,                      \* position of the caller in the Agent's code
    call,                    \* the method the caller invokes on the Agent
    error,                   \* the exception that left the call, or "none"
    runtimes, teacher_runtimes, default_runtime, default_teacher_runtime,
    skills,                  \* skill name -> Skill
    runtime, teacher_runtime, \* the arguments of the call, then the
                             \* runtimes they are rebound to
    learning_iterations, accuracy_threshold, iteration,
    inputs,                  \* the batch of the current pass
    applied,                 \* the instructions skills.apply ran with
    feedback,                \* EnvironmentFeedback of the current pass
    analyzed_df,             \* feedback merged with the predictions
    train_skill_name, train_skill_output, acc_score,
    examples,                \* list of example blocks of the current pass
    messages,                \* the dialogue pe_optimization is building
    sent,                    \* the dialogues handed to teacher.execute
    reasoning,
    new_instructions,        \* what pe_optimization returned to learn
    writes,                  \* assignments to a skill's instructions
    n_get_data_batch, n_apply, n_get_feedback,
    iter_teacher_calls       \* teacher.execute calls issued in this pass

vars == <<pc, call, runtime, teacher_runtime, applied, new_instructions,
          writes, error, runtimes, teacher_runtimes, default_runtime,
          default_teacher_runtime, skills, learning_iterations,
          accuracy_threshold, iteration, inputs, feedback, analyzed_df,
          train_skill_name, train_skill_output, acc_score, examples,
          messages, sent, reasoning, n_get_data_batch, n_apply,
          n_get_feedback, iter_teacher_calls>>

config == <<call, runtimes, teacher_runtimes, default_runtime,
            default_teacher_runtime>>
resolved == <<runtime, teacher_runtime>>
committed == <<new_instructions, writes>>
counters == <<n_get_data_batch, n_apply, n_get_feedback>>
selection == <<train_skill_name, train_skill_output, acc_score>>
dialogue == <<messages, sent, reasoning>>

NoBatch == [cols |-> {}, n |-> 0]
NotApplied == [s \in {} |-> ""]
NoFeedback == [accuracy |-> [o \in {} |-> 0], feedback |-> <<>>]

\* ------------------------------------------------------------------------
\* Agent.get_runtime / Agent.get_teacher_runtime
\* ------------------------------------------------------------------------
\* the name looked up: the argument, or the default when it is None
ResolveName(arg, default) == IF arg = "None" THEN default ELSE arg

get_runtime(arg) ==
    LET name == ResolveName(arg, default_runtime)
    IN  [raised |-> name \notin runtimes, runtime |-> name]

\* variant: an unknown teacher runtime name falls back to the default
get_teacher_runtime_or_default(arg) ==
    LET name == IF arg \in teacher_runtimes
                THEN arg ELSE default_teacher_runtime
    IN  [raised |-> name \notin teacher_runtimes, runtime |-> name]

get_teacher_runtime(arg) ==
    LET name == ResolveName(arg, default_teacher_runtime)
    IN  [raised |-> name \notin teacher_runtimes, runtime |-> name]

\* ------------------------------------------------------------------------
\* Agent.select_skill_to_train
\* ------------------------------------------------------------------------
\* variant: the comparison written <=
BelowOrEqual(acc, threshold) == acc # NaN /\ acc <= threshold

\* accuracy[skill_output] < accuracy_threshold on floats: False for NaN
Below(acc, threshold) == acc # NaN /\ acc < threshold

Sentinel == [raised |-> FALSE, name |-> "", output |-> "", score |-> NoScore]

RECURSIVE SelectFrom(_, _, _)
SelectFrom(accuracy, threshold, i) ==
    IF i > Len(SkillOutputs) THEN Sentinel
    ELSE LET skill_output == SkillOutputs[i][1]
             skill_name == SkillOutputs[i][2]
         IN  IF skill_output \notin DOMAIN accuracy
             THEN \* accuracy[skill_output] raises KeyError
                  [raised |-> TRUE, name |-> "", output |-> "", score |-> NoScore]
             ELSE IF Below(accuracy[skill_output], threshold)
             THEN [raised |-> FALSE, name |-> skill_name,
                   output |-> skill_output, score |-> accuracy[skill_output]]
             ELSE SelectFrom(accuracy, threshold, i + 1)

\* variant: the loop without its break, so the last match wins
RECURSIVE SelectLastFrom(_, _, _, _)
SelectLastFrom(accuracy, threshold, i, found) ==
    IF i > Len(SkillOutputs) THEN found
    ELSE LET skill_output == SkillOutputs[i][1]
             skill_name == SkillOutputs[i][2]
         IN  IF skill_output \notin DOMAIN accuracy
             THEN [raised |-> TRUE, name |-> "", output |-> "", score |-> NoScore]
             ELSE IF Below(accuracy[skill_output], threshold)
             THEN SelectLastFrom(accuracy, threshold, i + 1,
                      [raised |-> FALSE, name |-> skill_name,
                       output |-> skill_output,
                       score |-> accuracy[skill_output]])
             ELSE SelectLastFrom(accuracy, threshold, i + 1, found)

select_without_break(accuracy, threshold) ==
    SelectLastFrom(accuracy, threshold, 1, Sentinel)

select_skill_to_train(accuracy, threshold) == SelectFrom(accuracy, threshold, 1)

\* ------------------------------------------------------------------------
\* Agent.learn: the feedback table and the training examples
\* ------------------------------------------------------------------------
\* feedback.feedback: one row per batch row, one column per output
FeedbackRows ==
    {[o \in Outputs |-> v] : v \in FbValues}
    \cup {[o \in Outputs |-> IF o = "out_a" THEN "wrong" ELSE NoneFb],
          [o \in Outputs |-> IF o = "out_a" THEN NoneFb ELSE "wrong"]}

RECURSIVE Tables(_)
Tables(n) ==
    IF n = 0 THEN {<<>>}
    ELSE {Append(t, r) : t \in Tables(n - 1), r \in FeedbackRows}

\* fb.rename(...).merge(predictions, ...).to_dict(orient="records"): row i
\* has the batch columns, the output columns and the "<output>__fb" cells
Merge(fb, batch) ==
    [i \in 1..Len(fb) |->
        [idx |-> i, cols |-> batch.cols \cup Outputs, fb |-> fb[i]]]

\* truth value of a feedback cell: None and "" are falsy, NaN is not
Truthy(v) == v \notin {NoneFb, ""}

\* the cell as an f-string prints it
Str(v) == IF v = NaNFb THEN "nan" ELSE IF v = NoneFb THEN "None" ELSE v

\* template.format(**row) raises KeyError for a field the row lacks
CanRender(template, row) == TemplateFields(template) \subseteq row.cols
Render(template, row) == <<template, row.idx>>

Block(skill, output, row) ==
    <<Render(skill.input_template, row),
      Render(skill.output_template, row),
      Str(row.fb[output])>>

\* the loop over the rows, from row i on, with the examples appended so far
RECURSIVE BuildFrom(_, _, _, _, _)
BuildFrom(rows, skill, output, i, acc) ==
    IF i > Len(rows) THEN [raised |-> FALSE, examples |-> acc]
    ELSE IF ~Truthy(rows[i].fb[output])
    THEN BuildFrom(rows, skill, output, i + 1, acc)
    ELSE IF ~(CanRender(skill.input_template, rows[i])
              /\ CanRender(skill.output_template, rows[i]))
    THEN [raised |-> TRUE, examples |-> acc]
    ELSE BuildFrom(rows, skill, output, i + 1,
                   Append(acc, Block(skill, output, rows[i])))

BuildExamples(rows, skill, output) == BuildFrom(rows, skill, output, 1, <<>>)

\* "\n".join(examples)
Join(blocks) == [sep |-> "\n", parts |-> blocks]

\* ------------------------------------------------------------------------
\* Agent.pe_optimization: the dialogue
\* ------------------------------------------------------------------------
Turn(role, content) == [role |-> role, content |-> content]

\* the messages of the first teacher call
Phase1Messages(skill, examples_text) ==
    << Turn("system", "You are a helpful assistant."),
       Turn("user", "task definition"),
       Turn("assistant", "acknowledgment"),
       Turn("user", [kind |-> "step1",
                     prompt |-> skill.instructions,
                     input_template |-> skill.input_template,
                     output_template |-> skill.output_template,
                     examples |-> examples_text]) >>

\* variant: the critique is not carried into the second dialogue
Phase2TurnsWithoutCritique(skill, reply) ==
    << Turn("assistant", ""),
       Turn("user", [kind |-> "step2", prompt |-> skill.instructions]) >>

\* the turns appended before the second teacher call
Phase2Turns(skill, reply) ==
    << Turn("assistant", reply),
       Turn("user", [kind |-> "step2", prompt |-> skill.instructions]) >>

\* ------------------------------------------------------------------------
\* Initial state: an Agent built with the default runtimes
\* ------------------------------------------------------------------------
Blank ==
    /\ inputs = NoBatch
    /\ applied = NotApplied
    /\ feedback = NoFeedback
    /\ analyzed_df = <<>>
    /\ train_skill_name = ""
    /\ train_skill_output = ""
    /\ acc_score = NoScore
    /\ examples = <<>>
    /\ messages = <<>>
    /\ sent = <<>>
    /\ reasoning = ""

Constructed ==
    /\ runtimes = {"openai"}
    /\ teacher_runtimes = {"openai-gpt3"}
    /\ default_runtime = "openai"
    /\ default_teacher_runtime = "openai-gpt3"
    /\ skills = InitialSkills

\* the runtime and teacher_runtime arguments a caller may pass
RuntimeArgs == {"None", "openai", "absent"}
TeacherRuntimeArgs == {"None", "openai-gpt3", "absent"}

\* a caller about to invoke learn(runtime=, teacher_runtime=) or
\* run(runtime=) on the Agent
Init ==
    /\ pc = "idle"
    /\ error = "none"
    /\ Constructed
    /\ call \in {"learn", "run"}
    /\ runtime \in RuntimeArgs
    /\ teacher_runtime \in
           (IF call = "learn" THEN TeacherRuntimeArgs ELSE {"None"})
    /\ new_instructions = ""
    /\ writes = 0
    /\ learning_iterations = 0
    /\ accuracy_threshold = DefaultThreshold
    /\ iteration = 0
    /\ Blank
    /\ n_get_data_batch = 0
    /\ n_apply = 0
    /\ n_get_feedback = 0
    /\ iter_teacher_calls = 0

\* ------------------------------------------------------------------------
\* Agent.learn
\* ------------------------------------------------------------------------
\* the locals of a pass are rebound before the next pass reads them
BlankNext ==
    /\ inputs' = NoBatch
    /\ applied' = NotApplied
    /\ feedback' = NoFeedback
    /\ analyzed_df' = <<>>
    /\ train_skill_name' = ""
    /\ train_skill_output' = ""
    /\ acc_score' = NoScore
    /\ examples' = <<>>
    /\ messages' = <<>>
    /\ sent' = <<>>
    /\ reasoning' = ""

\* the for statement takes the next value of range(learning_iterations),
\* or ends the loop ("Train is done!")
NextPass ==
    /\ iteration' = iteration + 1
    /\ pc' = IF iteration + 1 < learning_iterations
             THEN "get_data_batch" ELSE "done"
    /\ BlankNext

\* an exception leaves learn
Raise(e) ==
    /\ pc' = "raised"
    /\ error' = e

\* the instructions of every skill, as skills.apply reads them
Instructions(sk) == [s \in DOMAIN sk |-> sk[s].instructions]

\* learn(learning_iterations, accuracy_threshold, runtime, teacher_runtime)
\* up to the for statement
Learn ==
    /\ pc = "idle"
    /\ call = "learn"
    /\ \E n \in 0..MaxIter, threshold \in Thresholds :
        /\ learning_iterations' = n
        /\ accuracy_threshold' = threshold
        /\ LET r == get_runtime(runtime)
               t == get_teacher_runtime(teacher_runtime)
           IN  IF r.raised
               THEN /\ Raise("ValueError")
                    /\ UNCHANGED resolved
               ELSE IF t.raised
               THEN /\ Raise("ValueError")
                    /\ runtime' = r.runtime
                    /\ UNCHANGED teacher_runtime
               ELSE /\ runtime' = r.runtime
                    /\ teacher_runtime' = t.runtime
                    /\ pc' = IF n > 0 THEN "get_data_batch" ELSE "done"
                    /\ error' = error
    /\ UNCHANGED <<config, committed, skills, iteration, inputs, applied,
                   feedback, analyzed_df, selection, examples, dialogue,
                   counters, iter_teacher_calls>>

\* run(input, runtime): the batch is fetched when no input is given, then
\* the runtime is looked up and the skills are applied
Run ==
    /\ pc = "idle"
    /\ call = "run"
    /\ \E input_given \in BOOLEAN :
        n_get_data_batch' =
            IF input_given THEN n_get_data_batch ELSE n_get_data_batch + 1
    /\ LET r == get_runtime(runtime)
       IN  IF r.raised
           THEN /\ Raise("ValueError")
                /\ UNCHANGED <<runtime, n_apply, applied>>
           ELSE /\ runtime' = r.runtime
                /\ n_apply' = n_apply + 1
                /\ applied' = Instructions(skills)
                /\ pc' = "returned"
                /\ error' = error
    /\ UNCHANGED <<config, teacher_runtime, committed, skills,
                   learning_iterations, accuracy_threshold, iteration,
                   inputs, feedback, analyzed_df, selection, examples,
                   dialogue, n_get_feedback, iter_teacher_calls>>

\* inputs = self.environment.get_data_batch(batch_size=batch_size)
GetDataBatch ==
    /\ pc = "get_data_batch"
    /\ \E cols \in {{"text"}, {}}, n \in 0..MaxRows :
        inputs' = [cols |-> cols, n |-> n]
    /\ n_get_data_batch' = n_get_data_batch + 1
    /\ iter_teacher_calls' = 0
    /\ pc' = "apply"
    /\ UNCHANGED <<error, config, resolved, committed, skills,
                   learning_iterations, accuracy_threshold, iteration,
                   applied, feedback, analyzed_df, selection, examples,
                   dialogue, n_apply, n_get_feedback>>

\* variant: the next batch is requested while the predictions are made
ApplyPrefetches ==
    /\ pc = "apply"
    /\ n_apply' = n_apply + 1
    /\ n_get_data_batch' = n_get_data_batch + 1
    /\ applied' = Instructions(skills)
    /\ pc' = "get_feedback"
    /\ UNCHANGED <<error, config, resolved, committed, skills,
                   learning_iterations, accuracy_threshold, iteration,
                   inputs, feedback, analyzed_df, selection, examples,
                   dialogue, n_get_feedback, iter_teacher_calls>>

\* predictions = self.skills.apply(inputs, runtime=runtime)
Apply ==
    /\ pc = "apply"
    /\ n_apply' = n_apply + 1
    /\ applied' = Instructions(skills)
    /\ pc' = "get_feedback"
    /\ UNCHANGED <<error, config, resolved, committed, skills,
                   learning_iterations, accuracy_threshold, iteration,
                   inputs, feedback,
                   analyzed_df, selection, examples, dialogue,
                   n_get_data_batch, n_get_feedback, iter_teacher_calls>>

\* variant: the check for the empty result left out
NeverSkips(name) == FALSE

\* if not train_skill_name
NoSkillSelected(name) == name = ""

LearnAccuracies == [Outputs -> LearnAccValues]

\* feedback = self.environment.get_feedback(self.skills, predictions, ...)
GetFeedback ==
    /\ pc = "get_feedback"
    /\ n_get_feedback' = n_get_feedback + 1
    /\ \E accuracy \in LearnAccuracies, table \in Tables(inputs.n) :
        feedback' = [accuracy |-> accuracy, feedback |-> table]
    /\ pc' = "select"
    /\ UNCHANGED <<error, config, resolved, committed, skills,
                   learning_iterations, accuracy_threshold, iteration,
                   inputs, applied, analyzed_df,
                   selection, examples, dialogue, n_get_data_batch, n_apply,
                   iter_teacher_calls>>

\* the code of learn between get_feedback and pe_optimization's first
\* teacher_runtime.execute(messages): merge, select_skill_to_train, the
\* examples loop and the first four messages
SelectAndBuild ==
    /\ pc = "select"
    /\ LET df == Merge(feedback.feedback, inputs)
           sel == select_skill_to_train(feedback.accuracy, accuracy_threshold)
       IN  IF sel.raised
           THEN /\ Raise("KeyError")
                /\ analyzed_df' = df
                /\ UNCHANGED <<selection, examples, dialogue, iteration,
                               inputs, applied, feedback>>
           ELSE IF NoSkillSelected(sel.name)
           THEN /\ NextPass
                /\ error' = error
           ELSE /\ analyzed_df' = df
                /\ train_skill_name' = sel.name
                /\ train_skill_output' = sel.output
                /\ acc_score' = sel.score
                /\ UNCHANGED <<iteration, inputs, applied, feedback, sent,
                               reasoning>>
                /\ IF sel.name \notin DOMAIN skills
                   THEN \* self.skills[train_skill_name]
                        /\ Raise("KeyError")
                        /\ UNCHANGED <<examples, messages>>
                   ELSE IF sel.score = NoScore
                   THEN \* accuracy * 100 in the progress message
                        /\ Raise("TypeError")
                        /\ UNCHANGED <<examples, messages>>
                   ELSE LET train_skill == skills[sel.name]
                            built == BuildExamples(df, train_skill, sel.output)
                        IN  /\ examples' = built.examples
                            /\ IF built.raised
                               THEN /\ Raise("KeyError")
                                    /\ UNCHANGED messages
                               ELSE /\ messages' =
                                          Phase1Messages(train_skill,
                                                         Join(built.examples))
                                    /\ pc' = "teacher_1"
                                    /\ error' = error
    /\ UNCHANGED <<config, resolved, committed, skills,
                   learning_iterations, accuracy_threshold, counters,
                   iter_teacher_calls>>

\* what teacher_runtime.execute(messages) can do: raise, or return a text
TeacherOutcomes ==
    {[raised |-> TRUE, content |-> ""]}
    \cup {[raised |-> FALSE, content |-> c] : c \in TeacherReplies}

\* variant: an empty critique is asked for a second time
Phase1AsksAgain(outcome) ==
    /\ sent' = Append(sent, messages)
    /\ iter_teacher_calls' =
           iter_teacher_calls + (IF ~outcome.raised /\ outcome.content = ""
                                 THEN 2 ELSE 1)
    /\ IF outcome.raised
       THEN /\ Raise("TeacherError")
            /\ UNCHANGED <<messages, reasoning>>
       ELSE /\ reasoning' = outcome.content
            /\ messages' = messages \o Phase2Turns(skills[train_skill_name],
                                                   outcome.content)
            /\ pc' = "teacher_2"
            /\ error' = error
    /\ UNCHANGED <<config, resolved, committed, skills,
                   learning_iterations, accuracy_threshold, iteration,
                   inputs, applied, feedback, analyzed_df, selection,
                   examples, counters>>

\* variant: the critique is stored as the instructions when it arrives
Phase1StoresCritique(outcome) ==
    /\ sent' = Append(sent, messages)
    /\ iter_teacher_calls' = iter_teacher_calls + 1
    /\ IF outcome.raised
       THEN /\ Raise("TeacherError")
            /\ UNCHANGED <<skills, messages, reasoning>>
       ELSE /\ reasoning' = outcome.content
            /\ skills' = [skills EXCEPT
                   ![train_skill_name].instructions = outcome.content]
            /\ messages' = messages \o Phase2Turns(skills[train_skill_name],
                                                   outcome.content)
            /\ pc' = "teacher_2"
            /\ error' = error
    /\ UNCHANGED <<config, resolved, committed, learning_iterations,
                   accuracy_threshold, iteration, inputs, applied, feedback,
                   analyzed_df, selection, examples, counters>>

\* reasoning = teacher_runtime.execute(messages), and the code after it up
\* to the second call
Phase1(outcome) ==
    /\ sent' = Append(sent, messages)
    /\ iter_teacher_calls' = iter_teacher_calls + 1
    /\ IF outcome.raised
       THEN /\ Raise("TeacherError")
            /\ UNCHANGED <<messages, reasoning>>
       ELSE /\ reasoning' = outcome.content
            /\ messages' = messages \o Phase2Turns(skills[train_skill_name],
                                                   outcome.content)
            /\ pc' = "teacher_2"
            /\ error' = error
    /\ UNCHANGED <<config, resolved, committed, skills,
                   learning_iterations, accuracy_threshold, iteration,
                   inputs, applied, feedback, analyzed_df, selection,
                   examples, counters>>

TeacherCall1 ==
    /\ pc = "teacher_1"
    /\ \E outcome \in TeacherOutcomes : Phase1(outcome)

\* variant: the reply is cut at its last underscore before it is stored
CommitStripped(sk, name, text) ==
    [sk EXCEPT ![name].instructions =
                   IF text = "reply_a" THEN "reply" ELSE text]

\* variant: the reply is stored in every skill of the set
CommitAll(sk, name, text) ==
    [s \in DOMAIN sk |-> [sk[s] EXCEPT !.instructions = text]]

\* train_skill.instructions = new_instructions
Commit(sk, name, text) ==
    [sk EXCEPT ![name].instructions = text]

\* variant: the critique is stored as the instructions before the second call
\* returns
Phase2WritesEarly(outcome) ==
    /\ iter_teacher_calls' = iter_teacher_calls + 1
    /\ IF outcome.raised
       THEN /\ Raise("TeacherError")
            /\ sent' = Append(sent, messages)
            /\ skills' = Commit(skills, train_skill_name, reasoning)
            /\ UNCHANGED <<committed, iteration, inputs, applied, feedback,
                           analyzed_df, selection, examples, messages,
                           reasoning>>
       ELSE /\ new_instructions' = outcome.content
            /\ skills' = Commit(skills, train_skill_name, outcome.content)
            /\ writes' = writes + 1
            /\ NextPass
            /\ error' = error
    /\ UNCHANGED <<config, resolved, learning_iterations,
                   accuracy_threshold, counters>>

\* new_prompt = teacher_runtime.execute(messages), the return to learn, the
\* assignment to train_skill.instructions and the end of the pass
Phase2(outcome) ==
    /\ iter_teacher_calls' = iter_teacher_calls + 1
    /\ IF outcome.raised
       THEN /\ Raise("TeacherError")
            /\ sent' = Append(sent, messages)
            /\ UNCHANGED <<skills, committed, iteration, inputs, applied,
                           feedback, analyzed_df, selection, examples,
                           messages, reasoning>>
       ELSE /\ new_instructions' = outcome.content
            /\ skills' = Commit(skills, train_skill_name, outcome.content)
            /\ writes' = writes + 1
            /\ NextPass
            /\ error' = error
    /\ UNCHANGED <<config, resolved, learning_iterations,
                   accuracy_threshold, counters>>

TeacherCall2 ==
    /\ pc = "teacher_2"
    /\ \E outcome \in TeacherOutcomes : Phase2(outcome)

Next ==
    \/ Learn
    \/ Run
    \/ GetDataBatch
    \/ Apply
    \/ GetFeedback
    \/ SelectAndBuild
    \/ TeacherCall1
    \/ TeacherCall2

Spec == Init /\ [][Next]_vars

\* ------------------------------------------------------------------------
\* select_skill_to_train on its own: any accuracy mapping, any threshold
\* ------------------------------------------------------------------------
\* feedback.get_accuracy(): a number or NaN for some of the outputs
Accuracies == UNION {[D -> AccValues] : D \in SUBSET Outputs}

InitSelect ==
    /\ pc = "select_call"
    /\ error = "none"
    /\ Constructed
    /\ call = "learn"
    /\ runtime = default_runtime
    /\ teacher_runtime = default_teacher_runtime
    /\ new_instructions = ""
    /\ writes = 0
    /\ learning_iterations = 0
    /\ accuracy_threshold \in Thresholds
    /\ iteration = 0
    /\ inputs = NoBatch
    /\ applied = NotApplied
    /\ \E accuracy \in Accuracies :
        feedback = [accuracy |-> accuracy, feedback |-> <<>>]
    /\ analyzed_df = <<>>
    /\ train_skill_name = ""
    /\ train_skill_output = ""
    /\ acc_score = NoScore
    /\ examples = <<>>
    /\ messages = <<>>
    /\ sent = <<>>
    /\ reasoning = ""
    /\ n_get_data_batch = 0
    /\ n_apply = 0
    /\ n_get_feedback = 0
    /\ iter_teacher_calls = 0

\* train_skill_name, train_skill_output, accuracy =
\*     self.select_skill_to_train(feedback, accuracy_threshold)
SelectCall ==
    /\ pc = "select_call"
    /\ LET sel == select_skill_to_train(feedback.accuracy, accuracy_threshold)
       IN  IF sel.raised
           THEN /\ Raise("KeyError")
                /\ UNCHANGED selection
           ELSE /\ pc' = "selected"
                /\ error' = error
                /\ train_skill_name' = sel.name
                /\ train_skill_output' = sel.output
                /\ acc_score' = sel.score
    /\ UNCHANGED <<config, resolved, committed, skills,
                   learning_iterations, accuracy_threshold, iteration,
                   inputs, applied, feedback, analyzed_df, examples,
                   dialogue, counters, iter_teacher_calls>>

NextSelect == SelectCall

SpecSelect == InitSelect /\ [][NextSelect]_vars

\* ------------------------------------------------------------------------
\* Agent(...): construction with any runtimes, teacher runtimes and defaults
\* ------------------------------------------------------------------------
RuntimeNames == {"openai", "llama2"}
TeacherRuntimeNames == {"openai-gpt3", "openai-gpt4"}

\* variant: only default_runtime is checked
verify_runtime_only == [raised |-> default_runtime \notin runtimes]

\* the model validator that runs after the fields are set
verify_input_parameters ==
    [raised |-> \/ default_runtime \notin runtimes
                \/ default_teacher_runtime \notin teacher_runtimes]

\* the fields as the caller passed them, before the validator has run
InitConstruct ==
    /\ pc = "constructing"
    /\ error = "none"
    /\ runtimes \in SUBSET RuntimeNames
    /\ teacher_runtimes \in SUBSET TeacherRuntimeNames
    /\ default_runtime \in RuntimeNames \cup {"absent"}
    /\ default_teacher_runtime \in TeacherRuntimeNames \cup {"absent"}
    /\ skills = InitialSkills
    /\ call = "Agent"
    /\ runtime = "None"
    /\ teacher_runtime = "None"
    /\ new_instructions = ""
    /\ writes = 0
    /\ learning_iterations = 0
    /\ accuracy_threshold = DefaultThreshold
    /\ iteration = 0
    /\ Blank
    /\ n_get_data_batch = 0
    /\ n_apply = 0
    /\ n_get_feedback = 0
    /\ iter_teacher_calls = 0

\* Agent.__init__: the validator raises, or the caller gets the Agent
Construct ==
    /\ pc = "constructing"
    /\ IF verify_input_parameters.raised
       THEN Raise("ValueError")
       ELSE /\ pc' = "idle"
            /\ error' = error
    /\ UNCHANGED <<config, resolved, committed, skills,
                   learning_iterations, accuracy_threshold, iteration,
                   inputs, applied, feedback, analyzed_df, selection,
                   examples, dialogue, counters, iter_teacher_calls>>

NextConstruct == Construct

SpecConstruct == InitConstruct /\ [][NextConstruct]_vars

\* ========================================================================
\* Properties
\* ========================================================================
\* output i of get_skill_outputs() has a numeric accuracy strictly below the
\* threshold
BelowAt(i) ==
    LET o == SkillOutputs[i][1]
    IN  /\ o \in DOMAIN feedback.accuracy
        /\ feedback.accuracy[o] # NaN
        /\ feedback.accuracy[o] < accuracy_threshold

\* every output has a numeric accuracy at or above the threshold
AllAtOrAbove ==
    \A o \in Outputs :
        /\ o \in DOMAIN feedback.accuracy
        /\ feedback.accuracy[o] # NaN
        /\ feedback.accuracy[o] >= accuracy_threshold

\* C1: when select_skill_to_train returns and some output is below the
\* threshold, it returns the first such output in the order of
\* get_skill_outputs(), with the name of its skill and its accuracy, whatever
\* the accuracies of the later outputs.
C1_FirstBelowInOrder ==
    pc = "selected" =>
        \A i \in 1..Len(SkillOutputs) :
            (BelowAt(i) /\ \A j \in 1..(i - 1) : ~BelowAt(j)) =>
                /\ train_skill_output = SkillOutputs[i][1]
                /\ train_skill_name = SkillOutputs[i][2]
                /\ acc_score = feedback.accuracy[SkillOutputs[i][1]]

\* the first below-threshold output is returned although a later one is lower
C1_Witness ==
    /\ pc = "selected"
    /\ accuracy_threshold = 9
    /\ DOMAIN feedback.accuracy = Outputs
    /\ feedback.accuracy["out_a"] = 10
    /\ feedback.accuracy["out_b"] = 5
    /\ feedback.accuracy["out_c"] = 3
    /\ train_skill_name = "s2"
    /\ train_skill_output = "out_b"
    /\ acc_score = 5

\* C2: when every output's accuracy is at or above the threshold (equal
\* included), select_skill_to_train returns ("", "", None).
C2_NoneBelowGivesSentinel ==
    (pc # "select_call" /\ AllAtOrAbove) =>
        /\ pc = "selected"
        /\ train_skill_name = ""
        /\ train_skill_output = ""
        /\ acc_score = NoScore

\* an accuracy equal to the threshold, and nothing selected
C2_Witness ==
    /\ pc = "selected"
    /\ AllAtOrAbove
    /\ feedback.accuracy["out_a"] = accuracy_threshold
    /\ train_skill_name = ""
    /\ acc_score = NoScore

\* a teacher call of the current refinement raised
TeacherFailed == pc = "raised" /\ error = "TeacherError"

\* C3: a failing teacher call does not end learn with an exception, so that
\* the remaining passes still run.
C3_TeacherFailureContained == ~TeacherFailed

\* the instructions of the selected skill as the refinement found them: the
\* first dialogue quotes them under "Current Prompt"
PromptAtStart == messages[4].content.prompt

\* C4: while a refinement is under way, and after a teacher call of it has
\* raised in phase 1 or in phase 2, the selected skill's instructions are
\* what they were when the refinement began.
C4_FailedRefinementKeepsInstructions ==
    (pc \in {"teacher_1", "teacher_2"} \/ TeacherFailed) =>
        skills[train_skill_name].instructions = PromptAtStart

\* the second teacher call raised after the first had returned a critique
C4_Witness ==
    /\ TeacherFailed
    /\ Len(sent) = 2
    /\ reasoning = "reply_a"
    /\ skills[train_skill_name].instructions = PromptAtStart

\* C5: a refinement in which the teacher returned an empty critique or an
\* empty new prompt leaves the skills as they were.
C5_EmptyReplyKeepsInstructions ==
    [][(pc = "teacher_2" /\ pc' # "raised"
        /\ (reasoning = ""
            \/ skills'[train_skill_name].instructions = ""))
       => skills' = skills]_vars

\* C6: once past the lookup of its runtimes, learn ends only after asking the
\* environment for exactly learning_iterations batches.
C6_ExactlyNBatches ==
    (pc \in {"done", "raised"} /\ error \in {"none", "TeacherError"}) =>
        n_get_data_batch = learning_iterations

\* C7: a pass in which no output is below the threshold builds no examples,
\* calls no teacher, changes no skill and goes on to the next pass (or to the
\* end of learn) without an error.
C7_SentinelSkipsRefinement ==
    [][(pc = "select" /\ AllAtOrAbove) =>
          /\ pc' = IF iteration + 1 < learning_iterations
                   THEN "get_data_batch" ELSE "done"
          /\ error' = "none"
          /\ iteration' = iteration + 1
          /\ skills' = skills
          /\ examples' = <<>>
          /\ sent' = <<>>
          /\ iter_teacher_calls' = 0]_vars

\* the first pass ended without a teacher call and the second is about to
\* start
C7_Witness ==
    /\ pc = "get_data_batch"
    /\ iteration = 1
    /\ iter_teacher_calls = 0
    /\ skills = InitialSkills

\* C8 as stated: a pass, however it ends, has made zero or two teacher calls.
C8_ZeroOrTwoTeacherCalls ==
    pc \in {"get_data_batch", "done", "raised"} =>
        iter_teacher_calls \in {0, 2}

\* C8, amended: a refinement issues one teacher call per phase, the second
\* only after the first has returned, so two when the first call returns and
\* one when it raises; the teacher is called nowhere else, and the worker
\* runtime is used once per pass, by skills.apply alone.  A pass that runs to
\* its end has made zero or two teacher calls, one that a teacher failure
\* ends has made one or two.
C8_TeacherCallsPerPass ==
    /\ pc \in {"apply", "get_feedback", "select", "teacher_1"} =>
           iter_teacher_calls = 0
    /\ pc = "teacher_2" => iter_teacher_calls = 1
    /\ pc \in {"get_data_batch", "done"} => iter_teacher_calls \in {0, 2}
    /\ TeacherFailed => iter_teacher_calls \in {1, 2}
    /\ (pc = "raised" /\ error # "TeacherError") => iter_teacher_calls = 0
    /\ (pc \in {"teacher_1", "teacher_2"} \/ pc = "raised") =>
           Len(sent) = iter_teacher_calls
    /\ (pc \in {"teacher_1", "teacher_2"} \/ TeacherFailed) =>
           n_apply = iteration + 1
    /\ pc \in {"get_data_batch", "done"} => n_apply = iteration

\* a pass with a refinement has ended, after two teacher calls
C8_Witness ==
    /\ pc = "get_data_batch"
    /\ iteration = 1
    /\ iter_teacher_calls = 2
    /\ n_apply = 1

Roles(d) == [i \in 1..Len(d) |-> d[i].role]

\* d2 is d1 followed by the critique as an assistant turn and a user turn
\* asking for the new prompt
ExtendsByTwo(d1, d2) ==
    /\ Len(d1) = 4
    /\ Len(d2) = 6
    /\ SubSeq(d2, 1, 4) = d1
    /\ d2[5].role = "assistant"
    /\ d2[5].content = reasoning
    /\ d2[6].role = "user"
    /\ d2[6].content.kind = "step2"

\* C9: the first dialogue handed to the teacher is system, user, assistant,
\* user; the second is the first, unchanged, followed by an assistant turn
\* holding the first reply verbatim and a user turn asking for the rewrite.
C9_SecondDialogueExtendsFirst ==
    /\ pc = "teacher_1" =>
           Roles(messages) = <<"system", "user", "assistant", "user">>
    /\ Len(sent) >= 1 =>
           Roles(sent[1]) = <<"system", "user", "assistant", "user">>
    /\ pc = "teacher_2" => (Len(sent) = 1 /\ ExtendsByTwo(sent[1], messages))
    /\ Len(sent) = 2 => ExtendsByTwo(sent[1], sent[2])

\* the second dialogue is ready, with a non-empty critique in it
C9_Witness ==
    /\ pc = "teacher_2"
    /\ reasoning = "reply_a"
    /\ Len(sent) = 1
    /\ Len(messages) = 6
    /\ messages[5] = Turn("assistant", "reply_a")

\* a feedback cell that holds a feedback text
Present(v) == v \notin {NoneFb, NaNFb, ""}

\* the rows of the merged table with feedback for the selected output
PresentRows ==
    {i \in 1..Len(analyzed_df) : Present(analyzed_df[i].fb[train_skill_output])}

\* C10: the examples hold one block per row with feedback present for the
\* selected output, rows with None, NaN or empty feedback left out, in the
\* order of the rows.
C10_OneBlockPerPresentRow ==
    pc = "teacher_1" =>
        /\ Len(examples) = Cardinality(PresentRows)
        /\ \A k \in 1..Len(examples) :
               /\ examples[k][1][2] \in PresentRows
               /\ \A j \in 1..(k - 1) : examples[j][1][2] < examples[k][1][2]

\* output i of get_skill_outputs() has no accuracy: the key is missing from
\* the mapping, or its value is NaN
UndefinedAt(i) ==
    LET o == SkillOutputs[i][1]
    IN  o \notin DOMAIN feedback.accuracy \/ feedback.accuracy[o] = NaN

C11_ReplyStoredVerbatim ==
    [][/\ (pc = "teacher_2" /\ pc' # "raised") =>
              /\ skills'[train_skill_name].instructions = new_instructions'
              /\ writes' = writes + 1
       /\ pc = "get_data_batch" => skills' = skills
       /\ pc = "apply" => applied' = Instructions(skills)]_vars

C11_Witness ==
    /\ call = "learn"
    /\ pc = "get_feedback"
    /\ iteration = 1
    /\ writes = 1
    /\ new_instructions = "reply_a"
    /\ \E s \in SkillNames :
           /\ skills[s].instructions = "reply_a"
           /\ applied[s] = "reply_a"

\* C13: the constructor hands out an Agent only when default_runtime is a
\* key of runtimes and default_teacher_runtime a key of teacher_runtimes;
\* with either missing the construction has raised.
C13_DefaultsCheckedAtConstruction ==
    /\ pc = "idle" =>
           /\ default_runtime \in runtimes
           /\ default_teacher_runtime \in teacher_runtimes
    /\ (/\ pc # "constructing"
        /\ \/ default_runtime \notin runtimes
           \/ default_teacher_runtime \notin teacher_runtimes) =>
           /\ pc = "raised"
           /\ error = "ValueError"

C13_Witness ==
    /\ pc = "raised"
    /\ error = "ValueError"
    /\ default_runtime \in runtimes
    /\ default_teacher_runtime \notin teacher_runtimes

\* the call names a runtime, or learn names a teacher runtime, that its
\* mapping does not hold
UnknownName ==
    \/ runtime # "None" /\ runtime \notin runtimes
    \/ /\ call = "learn"
       /\ teacher_runtime # "None"
       /\ teacher_runtime \notin teacher_runtimes

\* C14: learn or run called with an unknown runtime name, or learn with an
\* unknown teacher runtime name, raises ValueError in its first step, with no
\* prediction, no teacher call and no change of the skills; learn has then
\* fetched no batch and asked for no feedback.
C14_UnknownNameRaisesAtOnce ==
    [][(pc = "idle" /\ UnknownName) =>
           /\ pc' = "raised"
           /\ error' = "ValueError"
           /\ skills' = skills
           /\ n_apply' = n_apply
           /\ iter_teacher_calls' = iter_teacher_calls
           /\ call = "learn" =>
                  /\ n_get_data_batch' = n_get_data_batch
                  /\ n_get_feedback' = n_get_feedback]_vars

C14_Witness ==
    /\ pc = "raised"
    /\ error = "ValueError"
    /\ call = "learn"
    /\ runtime = "openai"
    /\ teacher_runtime = "absent"
    /\ n_get_data_batch = 0
    /\ skills = InitialSkills

\* the selected skill's templates name a field that a row with feedback for
\* the selected output lacks
RenderingFails ==
    /\ pc = "select"
    /\ LET sel == select_skill_to_train(feedback.accuracy, accuracy_threshold)
       IN  /\ ~sel.raised
           /\ sel.name \in DOMAIN skills
           /\ BuildExamples(Merge(feedback.feedback, inputs),
                            skills[sel.name], sel.output).raised

\* C15: a pass in which rendering a template fails makes no teacher call,
\* leaves the skills as they were, and learn goes on to the next pass (or
\* finishes) without raising.
C15_RenderFailureSkipsPass ==
    [][RenderingFails =>
           /\ pc' \in {"get_data_batch", "done"}
           /\ error' = "none"
           /\ skills' = skills
           /\ iter_teacher_calls' = iter_teacher_calls]_vars

\* C16: with a skill selected and no row holding feedback for the selected
\* output, the teacher is called with an empty list of examples and an empty
\* examples section in the step-1 message.
C16_NoExamplesStillRefines ==
    (pc \in {"teacher_1", "teacher_2"} /\ PresentRows = {}) =>
        /\ examples = <<>>
        /\ messages[4].content.examples.parts = <<>>

\* C17: in learn every call sits at its place in the pass: the batch of pass
\* i+1 is fetched only after pass i has ended, skills.apply follows the
\* batch, get_feedback follows skills.apply, the selection follows the
\* feedback, and the teacher is called only for a selected skill, the first
\* call before the second.
C17_CallsInPipelineOrder ==
    call = "learn" =>
        /\ pc \in {"get_data_batch", "done"} =>
               /\ n_get_data_batch = iteration
               /\ n_apply = iteration
               /\ n_get_feedback = iteration
        /\ pc = "done" => iteration = learning_iterations
        /\ pc = "apply" =>
               /\ n_get_data_batch = iteration + 1
               /\ n_apply = iteration
               /\ n_get_feedback = iteration
        /\ pc = "get_feedback" =>
               /\ n_get_data_batch = iteration + 1
               /\ n_apply = iteration + 1
               /\ n_get_feedback = iteration
        /\ pc \in {"select", "teacher_1", "teacher_2"} =>
               /\ n_get_data_batch = iteration + 1
               /\ n_apply = iteration + 1
               /\ n_get_feedback = iteration + 1
        /\ pc \in {"get_data_batch", "apply", "get_feedback", "select"} =>
               /\ iteration < learning_iterations
               /\ writes <= iteration
        /\ pc = "teacher_1" =>
               /\ train_skill_name \in SkillNames
               /\ iter_teacher_calls = 0
        /\ pc = "teacher_2" =>
               /\ train_skill_name \in SkillNames
               /\ iter_teacher_calls = 1

C17_Witness ==
    /\ call = "learn"
    /\ pc = "teacher_2"
    /\ iteration = 1
    /\ n_get_data_batch = 2
    /\ n_apply = 2
    /\ n_get_feedback = 2
    /\ writes = 1

\* C18: the skills change only in the step in which the second teacher call
\* returns; the step of the first call leaves them alone, and while the
\* second call is awaited the selected skill's instructions are the text
\* that both user turns of the dialogue carry.
C18_InstructionsReplacedAfterBothCalls ==
    [][/\ pc = "teacher_1" => skills' = skills
       /\ skills' # skills =>
              /\ pc = "teacher_2"
              /\ pc' \in {"get_data_batch", "done"}
              /\ iter_teacher_calls' = 2
       /\ pc' = "teacher_2" =>
              /\ Len(messages') = 6
              /\ messages'[4].content.prompt =
                     skills'[train_skill_name'].instructions
              /\ messages'[6].content.prompt =
                     skills'[train_skill_name'].instructions]_vars

C18_Witness ==
    /\ pc = "teacher_2"
    /\ iter_teacher_calls = 1
    /\ reasoning = "reply_a"
    /\ writes = 0
    /\ skills[train_skill_name].instructions # reasoning
    /\ messages[6].content.prompt = skills[train_skill_name].instructions

\* C19: a step of learn changes at most the instructions of the skill the
\* selector returned in this pass, once, in the step that ends the pass; no
\* other skill and no name or template changes; the writes never outnumber
\* the passes made, nor the passes asked for.
C19_OnlySelectedInstructionsWritten ==
    [][/\ DOMAIN skills' = DOMAIN skills
       /\ \A s \in DOMAIN skills :
              /\ skills'[s].name = skills[s].name
              /\ skills'[s].input_template = skills[s].input_template
              /\ skills'[s].output_template = skills[s].output_template
              /\ skills'[s].instructions # skills[s].instructions =>
                     /\ s = train_skill_name
                     /\ writes' = writes + 1
       /\ writes' # writes =>
              /\ writes' = writes + 1
              /\ pc = "teacher_2"
              /\ iteration' = iteration + 1
       /\ writes' <= iteration'
       /\ iteration' <= learning_iterations']_vars

C19_Witness ==
    /\ pc = "done"
    /\ learning_iterations = 2
    /\ writes = 1
    /\ skills["s1"].instructions = "reply_a"
    /\ skills["s2"] = InitialSkills["s2"]

====
